---- MODULE Spec2Model ----
(***************************************************************************)
(* The prometheus sink of src/sinks/prometheus.rs: one ingest loop         *)
(* (PrometheusSink::run) merging metric updates into an IndexSet guarded   *)
(* by a RwLock, and HTTP requests (the service_fn closure of               *)
(* start_server_if_needed) rendering that set under the read lock.         *)
(***************************************************************************)
EXTENDS Integers, Sequences, FiniteSets, TLC

\* ------------------------------------------------------------------ bounds

\* i64/u64 are modelled WordBits wide: the casts wrap at 2^WordBits.
WordBits == 4
\* Utc::now().timestamp() yields a second count in 0..MaxTime.
MaxTime == 2
\* The input stream of run() carries StreamLen events.
StreamLen == 4
\* HTTP connections served concurrently under SpecConcurrent, and the length
\* of its input stream.
NumReaders == 2
ConcurrentStreamLen == 2
\* Counter and gauge updates carry a value in 1..MaxDelta.
MaxDelta == 2

\* ------------------------------------------------------- program constants

MIN_FLUSH_PERIOD_SECS == 1

\* ------------------------------------------------------ integers and casts

TwoW == 2 ^ WordBits

\* `x as u64`
AsU64(x) == x % TwoW

\* `x as i64`
AsI64(x) == LET m == x % TwoW IN IF m >= TwoW \div 2 THEN m - TwoW ELSE m

Times == 0 .. MaxTime

\* ----------------------------------------------------------------- strings
\* A String is the sequence of its bytes; the derived Ord of String (and
\* Vec::sort on Strings) is the lexicographic order of those sequences.

RECURSIVE StrLess(_, _)
StrLess(a, b) ==
    IF a = <<>> THEN b # <<>>
    ELSE IF b = <<>> THEN FALSE
    ELSE IF Head(a) # Head(b) THEN Head(a) < Head(b)
    ELSE StrLess(Tail(a), Tail(b))

RECURSIVE InsertSorted(_, _)
InsertSorted(s, x) ==
    IF s = <<>> THEN <<x>>
    ELSE IF StrLess(x, Head(s)) THEN <<x>> \o s
    ELSE <<Head(s)>> \o InsertSorted(Tail(s), x)

\* parts.sort()
RECURSIVE SortStrings(_)
SortStrings(s) ==
    IF s = <<>> THEN <<>> ELSE InsertSorted(SortStrings(Tail(s)), Head(s))

\* parts.join(",")
RECURSIVE Join(_)
Join(parts) ==
    IF parts = <<>> THEN <<>>
    ELSE IF Len(parts) = 1 THEN parts[1]
    ELSE parts[1] \o <<44>> \o Join(Tail(parts))

\* format!("{}=\"{}\"", name, value)
FormatPart(name, value) == name \o <<61, 34>> \o value \o <<34>>

\* Option<BTreeMap<String, String>>: the map is the sequence of its
\* <<key, value>> pairs in key order.
NoTags == [some |-> FALSE, map |-> <<>>]
SomeTags(m) == [some |-> TRUE, map |-> m]

encode_tags(tags) ==
    IF tags.some
    THEN LET parts == [i \in 1 .. Len(tags.map) |->
                          FormatPart(tags.map[i][1], tags.map[i][2])]
         IN  <<123>> \o Join(SortStrings(parts)) \o <<125>>
    ELSE <<>>

\* ------------------------------------------------------------------ metrics

\* MetricValue, one record shape for every variant.
EmptyValue ==
    [type |-> "Counter", value |-> 0, values |-> {}, samples |-> <<>>,
     sample_rates |-> <<>>, statistic |-> "None"]
Counter(v) == [EmptyValue EXCEPT !.value = v]
Gauge(v) == [EmptyValue EXCEPT !.type = "Gauge", !.value = v]
SetValue(vs) == [EmptyValue EXCEPT !.type = "Set", !.values = vs]
\* Distribution { values, sample_rates, statistic }: `samples` is its `values`.
Distribution(vs, rates, stat) ==
    [EmptyValue EXCEPT !.type = "Distribution", !.samples = vs,
                       !.sample_rates = rates, !.statistic = stat]

\* Metric (timestamp is never read by the sink).
Metric(name, tags, kind, value) ==
    [name |-> name, tags |-> tags, kind |-> kind, value |-> value]

is_set(value) == value.type = "Set"

is_absolute(kind) == kind = "Absolute"

\* Metric::to_absolute
to_absolute(m) == [m EXCEPT !.kind = "Absolute"]

\* Metric::add: type-specific addition.
add(existing, item) ==
    IF existing.value.type # item.value.type THEN existing
    ELSE IF existing.value.type \in {"Counter", "Gauge"}
    THEN [existing EXCEPT !.value.value = @ + item.value.value]
    ELSE IF existing.value.type = "Set"
    THEN [existing EXCEPT !.value.values = @ \cup item.value.values]
    ELSE IF existing.value.statistic # item.value.statistic THEN existing
    ELSE [existing EXCEPT
            !.value.samples = @ \o item.value.samples,
            !.value.sample_rates = @ \o item.value.sample_rates]

\* Metric::reset
reset(existing) ==
    [existing EXCEPT !.value.value = 0, !.value.values = {},
                     !.value.samples = <<>>, !.value.sample_rates = <<>>]

\* MetricEntry's Eq/Hash: the identity (name, tag set).
SameEntry(a, b) == a.name = b.name /\ a.tags = b.tags

\* --------------------------------------------------------------- IndexSet

\* The position of the entry equal to e, 0 when there is none.
IndexOf(set, e) ==
    IF \E i \in 1 .. Len(set) : SameEntry(set[i], e)
    THEN CHOOSE i \in 1 .. Len(set) : SameEntry(set[i], e)
    ELSE 0

\* A take that closes the hole by shifting the later entries down.
ShiftTakeRest(set, e) ==
    SelectSeq(set, LAMBDA x : ~SameEntry(x, e))

\* IndexSet::take (swap_take): the last entry moves into the hole.
TakeRest(set, e) ==
    LET i == IndexOf(set, e)
        n == Len(set)
    IN  IF i = 0 THEN set
        ELSE IF i = n THEN SubSeq(set, 1, n - 1)
        ELSE SubSeq([set EXCEPT ![i] = set[n]], 1, n - 1)

\* IndexSet::insert: appends unless an equal entry is present.
IndexSetInsert(set, e) ==
    IF IndexOf(set, e) # 0 THEN set ELSE Append(set, e)

\* A replace that leaves an equal entry as it is.
ReplaceKeepsOld(set, e) ==
    IF IndexOf(set, e) # 0 THEN set ELSE Append(set, e)

\* A replace that always appends.
ReplaceAppends(set, e) == Append(set, e)

\* A replace that moves the replaced entry to the end.
ReplaceMovesLast(set, e) ==
    Append(SelectSeq(set, LAMBDA x : ~SameEntry(x, e)), e)

\* IndexSet::replace: replaces the equal entry where it is, else appends.
IndexSetReplace(set, e) ==
    LET i == IndexOf(set, e)
    IN  IF i # 0 THEN [set EXCEPT ![i] = e] ELSE Append(set, e)

\* --------------------------------------------------------------- rendering

\* Option<String>
None == [some |-> FALSE, v |-> ""]
Some(x) == [some |-> TRUE, v |-> x]

\* encode_namespace(namespace, '_', name)
encode_namespace(namespace, name) ==
    IF namespace.some THEN namespace.v \o "_" \o name ELSE name

\* One line of the exposition text.
HelpLine(fullname, name) ==
    [line |-> "HELP", name |-> fullname, text |-> name, tags |-> <<>>, value |-> 0]
TypeLine(fullname, type) ==
    [line |-> "TYPE", name |-> fullname, text |-> type, tags |-> <<>>, value |-> 0]
DataLine(fullname, tags, value) ==
    [line |-> "DATA", name |-> fullname, text |-> "", tags |-> tags, value |-> value]

encode_metric_header(namespace, metric) ==
    LET fullname == encode_namespace(namespace, metric.name)
        type == CASE metric.value.type = "Counter" -> "counter"
                  [] metric.value.type = "Gauge" -> "gauge"
                  [] metric.value.type = "Distribution"
                       /\ metric.value.statistic = "Histogram" -> "histogram"
                  [] metric.value.type = "Distribution"
                       /\ metric.value.statistic = "Summary" -> "summary"
                  [] metric.value.type = "Set" -> "gauge"
    IN  <<HelpLine(fullname, metric.name), TypeLine(fullname, type)>>

\* A count that ignores `expired`.
SetCount_AlwaysLen(expired, values) == Cardinality(values)

\* `let value = if expired { 0 } else { values.len() }`
SetCount(expired, values) == IF expired THEN 0 ELSE Cardinality(values)

\* encode_tags_with_extra(tags, tag, value)
encode_tags_with_extra(tags, tag, value) ==
    LET own == IF tags.some
               THEN [i \in 1 .. Len(tags.map) |->
                        FormatPart(tags.map[i][1], tags.map[i][2])]
               ELSE <<>>
    IN  <<123>> \o Join(SortStrings(own \o <<FormatPart(tag, value)>>)) \o <<125>>

\* The first position of buckets whose bound is not below v
\* (skip_while(|&(_, b)| b < v)), Len(buckets) + 1 when every bound is.
RECURSIVE FirstKept(_, _, _)
FirstKept(buckets, v, i) ==
    IF i > Len(buckets) THEN i
    ELSE IF buckets[i] < v THEN FirstKept(buckets, v, i + 1)
    ELSE i

\* Bucket counts where a sample is counted in the first kept bucket only.
RECURSIVE BucketCounts_OnlyFirst(_, _, _, _)
BucketCounts_OnlyFirst(buckets, samples, sample_rates, k) ==
    IF k = 0 THEN [i \in 1 .. Len(buckets) |-> 0]
    ELSE LET before == BucketCounts_OnlyFirst(buckets, samples, sample_rates, k - 1)
             from == FirstKept(buckets, samples[k], 1)
         IN  [i \in 1 .. Len(buckets) |->
                 IF i = from THEN before[i] + sample_rates[k] ELSE before[i]]

\* The bucket counts after the samples k..: counts[i] += c for every bucket
\* from the first kept one on.
RECURSIVE BucketCounts(_, _, _, _)
BucketCounts(buckets, samples, sample_rates, k) ==
    IF k = 0 THEN [i \in 1 .. Len(buckets) |-> 0]
    ELSE LET before == BucketCounts(buckets, samples, sample_rates, k - 1)
             from == FirstKept(buckets, samples[k], 1)
         IN  [i \in 1 .. Len(buckets) |->
                 IF i >= from THEN before[i] + sample_rates[k] ELSE before[i]]

RECURSIVE SumRates(_, _)
SumRates(sample_rates, k) ==
    IF k = 0 THEN 0 ELSE SumRates(sample_rates, k - 1) + sample_rates[k]

RECURSIVE SumWeighted(_, _, _)
SumWeighted(samples, sample_rates, k) ==
    IF k = 0 THEN 0
    ELSE SumWeighted(samples, sample_rates, k - 1) + samples[k] * sample_rates[k]

Min(a, b) == IF a < b THEN a ELSE b

\* b.to_string() of a bucket bound, "+Inf" for the last bucket.
RECURSIVE Digits(_)
Digits(n) == IF n < 10 THEN <<48 + n>> ELSE Digits(n \div 10) \o <<48 + (n % 10)>>
LeTag == <<108, 101>>
PlusInf == <<43, 73, 110, 102>>

encode_histogram(fullname, tags, buckets, value) ==
    LET n == Min(Len(value.samples), Len(value.sample_rates))
        counts == BucketCounts(buckets, value.samples, value.sample_rates, n)
        count == SumRates(value.sample_rates, n)
        sum == SumWeighted(value.samples, value.sample_rates, n)
    IN  [i \in 1 .. Len(buckets) |->
            DataLine(fullname \o "_bucket",
                     encode_tags_with_extra(tags, LeTag, Digits(buckets[i])),
                     counts[i])]
        \o <<DataLine(fullname \o "_bucket",
                      encode_tags_with_extra(tags, LeTag, PlusInf), count),
             DataLine(fullname \o "_sum", encode_tags(tags), sum),
             DataLine(fullname \o "_count", encode_tags(tags), count)>>

encode_metric_datum(namespace, buckets, expired, metric) ==
    LET fullname == encode_namespace(namespace, metric.name)
        tags == metric.tags
        value == metric.value
    IN  IF ~is_absolute(metric.kind) THEN <<>>
        ELSE IF value.type \in {"Counter", "Gauge"}
        THEN <<DataLine(fullname, encode_tags(tags), value.value)>>
        ELSE IF value.type = "Set"
        THEN <<DataLine(fullname, encode_tags(tags),
                        SetCount(expired, value.values))>>
        ELSE encode_histogram(fullname, tags, buckets, value)

\* A loop that puts a header before the frame of every entry.
RECURSIVE RenderFrom_HeaderEach(_, _, _, _, _, _)
RenderFrom_HeaderEach(namespace, buckets, expired, set, i, processed_headers) ==
    IF i > Len(set) THEN <<>>
    ELSE encode_metric_header(namespace, set[i])
         \o encode_metric_datum(namespace, buckets, expired, set[i])
         \o RenderFrom_HeaderEach(namespace, buckets, expired, set, i + 1,
                                  processed_headers)

\* The loop of handle over metrics[i..], processed_headers being the names
\* whose header is already out.
RECURSIVE RenderFrom(_, _, _, _, _, _)
RenderFrom(namespace, buckets, expired, set, i, processed_headers) ==
    IF i > Len(set) THEN <<>>
    ELSE LET metric == set[i]
             frame == encode_metric_datum(namespace, buckets, expired, metric)
             header == IF metric.name \notin processed_headers
                       THEN encode_metric_header(namespace, metric)
                       ELSE <<>>
         IN  header \o frame
             \o RenderFrom(namespace, buckets, expired, set, i + 1,
                           processed_headers \cup {metric.name})

\* A match on the path alone.
handle_AnyMethod(req, namespace, buckets, expired, set) ==
    IF req.path = "/metrics"
    THEN [status |-> 200,
          content_type |-> "text/plain; version=0.0.4",
          body |-> RenderFrom(namespace, buckets, expired, set, 1, {})]
    ELSE [status |-> 404, content_type |-> "", body |-> <<>>]

NoResponse == [status |-> 0, content_type |-> "", body |-> <<>>]

handle(req, namespace, buckets, expired, set) ==
    IF req.method = "GET" /\ req.path = "/metrics"
    THEN [status |-> 200,
          content_type |-> "text/plain; version=0.0.4",
          body |-> RenderFrom(namespace, buckets, expired, set, 1, {})]
    ELSE [status |-> 404, content_type |-> "", body |-> <<>>]

\* ------------------------------------------------------------------ inputs

CodeTag == <<99, 111, 100, 101>>
Code200 == <<50, 48, 48>>
Tagged == SomeTags(<< <<CodeTag, Code200>> >>)

\* The time series of the input stream: an identity and its value kind.
Series ==
    { [name |-> "hits", tags |-> Tagged, type |-> "Counter"],
      [name |-> "temperature", tags |-> NoTags, type |-> "Gauge"],
      [name |-> "users", tags |-> NoTags, type |-> "Set"],
      [name |-> "users", tags |-> Tagged, type |-> "Set"],
      [name |-> "requests", tags |-> NoTags, type |-> "Distribution"] }

Members == {"x", "y"}

ValuesOf(type) ==
    CASE type = "Counter" -> {Counter(v) : v \in 1 .. MaxDelta}
      [] type = "Gauge" -> {Gauge(v) : v \in 1 .. MaxDelta}
      [] type = "Set" -> {SetValue({m}) : m \in Members}
      [] type = "Distribution" -> {Distribution(<<1>>, <<1>>, "Histogram")}

\* event.into_metric(): the metrics the input stream can deliver.
Items ==
    UNION { { Metric(s.name, s.tags, kind, v) :
                kind \in {"Incremental", "Absolute"}, v \in ValuesOf(s.type) } :
            s \in Series }

NoItem == Metric("", NoTags, "Absolute", EmptyValue)

Requests ==
    { [method |-> "GET", path |-> "/metrics"],
      [method |-> "POST", path |-> "/metrics"],
      [method |-> "GET", path |-> "/"] }

Readers == 1 .. NumReaders

\* PrometheusSinkConfig values offered to build().
Configs ==
    { [namespace |-> Some("vector"), buckets |-> <<0, 2>>, flush_period_secs |-> f] :
        f \in {0, MIN_FLUSH_PERIOD_SECS, TwoW \div 2} }

\* SinkConfig::build accepts the config.
BuildOk(c) == ~(c.flush_period_secs < MIN_FLUSH_PERIOD_SECS)

\* ------------------------------------------------------------------- state

\* The identity of a series or metric.
IdOf(m) == <<m.name, m.tags>>
Ids == {IdOf(s) : s \in Series}

VARIABLES
    input,                   \* events the input stream still holds
    connections,             \* the open HTTP connections
    config,                  \* PrometheusSink.config
    server_shutdown_trigger, \* is_some()
    metrics,                 \* the IndexSet behind the RwLock, in iteration order
    last_flush_timestamp,    \* the i64 behind the RwLock
    acked,                   \* events acknowledged through acker.ack(1)
    wpc,                     \* where run() is
    item,                    \* run(): the metric of the current event
    existing,                \* run(): the entry taken out of the set
    metrics_writer,          \* the write guard of metrics is held
    metrics_readers,         \* requests holding a read guard of metrics
    timestamp_readers,       \* requests holding a read guard of the timestamp
    rpc,                     \* where each request's closure is
    request_now,             \* each request's `Utc::now().timestamp()`
    expired,                 \* each request's `expired`
    response,                \* each request's response
    before,                  \* history: metrics as run() locked it
    expected,                \* history: per identity, the last Absolute value
                             \*   plus the Incremental values merged since
    observed,                \* history: per identity, the Set members merged
                             \*   since the timestamp last advanced
    call                     \* the arguments and results of a function under test

vars ==
    <<input, connections, before, expected, observed, call,
      config, server_shutdown_trigger, metrics, last_flush_timestamp, acked,
      wpc, item, existing, metrics_writer, metrics_readers, timestamp_readers,
      rpc, request_now, expired, response>>

sinkVars == <<connections, config, server_shutdown_trigger, call>>
historyVars == <<before, expected, observed>>
writerVars == <<input, wpc, item, existing, acked>>
readerVars == <<rpc, request_now, expired, response>>
lockVars == <<metrics_writer, metrics_readers, timestamp_readers>>

NoCall == [fn |-> "none"]

\* PrometheusSink::new, called by build() on a valid config; the stream
\* holds `events` events and `conns` connections are open.
InitSink(events, conns) ==
    /\ input = events
    /\ connections = conns
    /\ before = <<>>
    /\ expected = [id \in Ids |-> 0]
    /\ observed = [id \in Ids |-> {}]
    /\ config \in {c \in Configs : BuildOk(c)}
    /\ server_shutdown_trigger = FALSE
    /\ metrics = <<>>
    /\ last_flush_timestamp \in Times
    /\ acked = 0
    /\ wpc = "start"
    /\ item = NoItem
    /\ existing = NoItem
    /\ metrics_writer = FALSE
    /\ metrics_readers = {}
    /\ timestamp_readers = {}
    /\ rpc = [r \in Readers |-> "idle"]
    /\ request_now = [r \in Readers |-> 0]
    /\ expired = [r \in Readers |-> FALSE]
    /\ response = [r \in Readers |-> NoResponse]

Init == InitSink(StreamLen, {1}) /\ call = NoCall

InitConcurrent == InitSink(ConcurrentStreamLen, Readers) /\ call = NoCall

\* -------------------------------------------------------------- ingest loop

\* run(): self.start_server_if_needed()
StartServer ==
    /\ wpc = "start"
    /\ server_shutdown_trigger' = TRUE
    /\ wpc' = "next"
    /\ UNCHANGED <<input, connections, config, call, metrics, last_flush_timestamp, acked, item, existing>>
    /\ UNCHANGED <<lockVars, readerVars, historyVars>>

\* `while let Some(event) = input.next().await`, `event.into_metric()`
NextEvent ==
    /\ wpc = "next"
    /\ input > 0
    /\ input' = input - 1
    /\ \E m \in Items : item' = m
    /\ wpc' = "lock"
    /\ UNCHANGED <<sinkVars, metrics, last_flush_timestamp, acked, existing>>
    /\ UNCHANGED <<lockVars, readerVars, historyVars>>

\* input.next() yields None: run() returns Ok(()).
EndOfStream ==
    /\ wpc = "next"
    /\ wpc' = "done"
    /\ UNCHANGED <<sinkVars, input, metrics, last_flush_timestamp, acked, item, existing>>
    /\ UNCHANGED <<lockVars, readerVars, historyVars>>

\* A write lock granted while requests hold read guards.
WriteLockIgnoresReaders == ~metrics_writer

\* RwLock::write is granted when no guard of the lock is held.
WriteLockFree == ~metrics_writer /\ metrics_readers = {}

\* `let mut metrics = self.metrics.write().unwrap()`
LockMetrics ==
    /\ wpc = "lock"
    /\ WriteLockFree
    /\ metrics_writer' = TRUE
    /\ wpc' = "match"
    /\ before' = metrics
    /\ UNCHANGED <<sinkVars, input, metrics, last_flush_timestamp, acked, item, existing>>
    /\ UNCHANGED <<metrics_readers, timestamp_readers, readerVars, expected, observed>>

\* MetricKind::Absolute => metrics.replace(MetricEntry(item))
MergeAbsolute ==
    /\ wpc = "match"
    /\ item.kind = "Absolute"
    /\ metrics' = IndexSetReplace(metrics, item)
    /\ wpc' = "ack"
    /\ UNCHANGED <<sinkVars, input, last_flush_timestamp, acked, item, existing>>
    /\ UNCHANGED <<lockVars, readerVars, historyVars>>

\* MetricKind::Incremental, `metrics.take(&new)` is Some: the entry is out.
TakeExisting ==
    /\ wpc = "match"
    /\ item.kind = "Incremental"
    /\ IndexOf(metrics, to_absolute(item)) # 0
    /\ existing' = metrics[IndexOf(metrics, to_absolute(item))]
    /\ metrics' = TakeRest(metrics, to_absolute(item))
    /\ wpc' = "taken"
    /\ UNCHANGED <<sinkVars, input, last_flush_timestamp, acked, item>>
    /\ UNCHANGED <<lockVars, readerVars, historyVars>>

\* An insert of the item as it came, not of its absolute form.
InsertNew_Raw ==
    /\ wpc = "match"
    /\ item.kind = "Incremental"
    /\ IndexOf(metrics, to_absolute(item)) = 0
    /\ metrics' = IndexSetInsert(metrics, item)
    /\ wpc' = "ack"
    /\ UNCHANGED <<sinkVars, input, last_flush_timestamp, acked, item, existing>>
    /\ UNCHANGED <<lockVars, readerVars, historyVars>>

\* MetricKind::Incremental, `metrics.take(&new)` is None: metrics.insert(new)
InsertNew ==
    /\ wpc = "match"
    /\ item.kind = "Incremental"
    /\ IndexOf(metrics, to_absolute(item)) = 0
    /\ metrics' = IndexSetInsert(metrics, to_absolute(item))
    /\ wpc' = "ack"
    /\ UNCHANGED <<sinkVars, input, last_flush_timestamp, acked, item, existing>>
    /\ UNCHANGED <<lockVars, readerVars, historyVars>>

\* `interval > self.config.flush_period_secs as i64`,
\* interval being `now - *self.last_flush_timestamp.read().unwrap()`
MergeExpired(now, timestamp, flush_period_secs) ==
    AsI64(now - timestamp) > AsI64(flush_period_secs)

\* A write lock of the timestamp asked for while run() itself still holds
\* the read guard it compared the timestamp under: never granted.
TimestampWriteLockSelfHeld == FALSE

\* RwLock::write of the timestamp. The read guard run() takes to compute
\* `interval` is a temporary dropped at the end of that statement, so the
\* write lock is granted when no request holds a read guard of the timestamp.
TimestampWriteLockFree == timestamp_readers = {}

\* `if item.value.is_set()` with the flush period over:
\* `*self.last_flush_timestamp.write().unwrap() = now`
AdvanceTimestamp ==
    /\ wpc = "taken"
    /\ is_set(item.value)
    /\ TimestampWriteLockFree
    /\ \E now \in Times :
        /\ MergeExpired(now, last_flush_timestamp, config.flush_period_secs)
        /\ last_flush_timestamp' = now
    /\ wpc' = "reset"
    /\ observed' = [id \in Ids |-> {}]
    /\ UNCHANGED <<sinkVars, input, metrics, acked, item, existing>>
    /\ UNCHANGED <<lockVars, readerVars, before, expected>>

\* `existing.reset()`
ResetExisting ==
    /\ wpc = "reset"
    /\ existing' = reset(existing)
    /\ wpc' = "fold"
    /\ UNCHANGED <<sinkVars, input, metrics, last_flush_timestamp, acked, item>>
    /\ UNCHANGED <<lockVars, readerVars, historyVars>>

\* The item is no set, or the flush period is not over.
SkipReset ==
    /\ wpc = "taken"
    /\ \/ ~is_set(item.value)
       \/ \E now \in Times :
            ~MergeExpired(now, last_flush_timestamp, config.flush_period_secs)
    /\ wpc' = "fold"
    /\ UNCHANGED <<sinkVars, input, metrics, last_flush_timestamp, acked, item, existing>>
    /\ UNCHANGED <<lockVars, readerVars, historyVars>>

\* The fold without `existing.add(&item)`.
FoldInto_NoAdd(set, taken, new) == IndexSetInsert(set, taken)

\* `existing.add(&item); metrics.insert(MetricEntry(existing))`
FoldInto(set, taken, new) == IndexSetInsert(set, add(taken, new))

FoldAndInsert ==
    /\ wpc = "fold"
    /\ metrics' = FoldInto(metrics, existing, item)
    /\ existing' = NoItem
    /\ wpc' = "ack"
    /\ UNCHANGED <<sinkVars, input, last_flush_timestamp, acked, item>>
    /\ UNCHANGED <<lockVars, readerVars, historyVars>>

\* An acknowledgement that counts the event twice.
ack_twice(count, num) == count + num + num

\* Acker::ack(num): num more events are acknowledged.
ack(count, num) == count + num

\* `self.acker.ack(1)`
Ack ==
    /\ wpc = "ack"
    /\ acked' = ack(acked, 1)
    /\ wpc' = "unlock"
    /\ expected' = [expected EXCEPT ![IdOf(item)] =
                        IF item.kind = "Absolute" THEN item.value.value
                        ELSE @ + item.value.value]
    /\ observed' = [observed EXCEPT ![IdOf(item)] =
                        IF item.kind = "Absolute" THEN item.value.values
                        ELSE @ \cup item.value.values]
    /\ UNCHANGED <<sinkVars, input, metrics, last_flush_timestamp, item, existing>>
    /\ UNCHANGED <<lockVars, readerVars, before>>

\* The end of the loop body drops the write guard.
UnlockMetrics ==
    /\ wpc = "unlock"
    /\ metrics_writer' = FALSE
    /\ wpc' = "next"
    /\ item' = NoItem
    /\ before' = <<>>
    /\ UNCHANGED <<sinkVars, input, metrics, last_flush_timestamp, acked, existing>>
    /\ UNCHANGED <<metrics_readers, timestamp_readers, readerVars, expected, observed>>

\* ---------------------------------------------------------------- requests

\* A read lock granted while the write guard is held.
ReadLockIgnoresWriter == TRUE

\* RwLock::read is granted when no write guard is held.
ReadLockFree == ~metrics_writer

\* `let metrics = metrics.read().unwrap()`
ReadMetrics(r) ==
    /\ server_shutdown_trigger
    /\ r \in connections
    /\ rpc[r] = "idle"
    /\ ReadLockFree
    /\ metrics_readers' = metrics_readers \cup {r}
    /\ rpc' = [rpc EXCEPT ![r] = "timestamp"]
    /\ UNCHANGED <<sinkVars, metrics, last_flush_timestamp, writerVars, historyVars>>
    /\ UNCHANGED <<metrics_writer, timestamp_readers, request_now, expired, response>>

\* `let interval = (Utc::now().timestamp() - *last_flush_timestamp) as u64;
\*  let expired = interval > flush_period_secs`
RequestExpired(now, timestamp, flush_period_secs) ==
    AsU64(AsI64(now - timestamp)) > flush_period_secs

\* `let last_flush_timestamp = last_flush_timestamp.read().unwrap()` and the
\* computation of `expired`
ReadTimestamp(r) ==
    /\ rpc[r] = "timestamp"
    /\ timestamp_readers' = timestamp_readers \cup {r}
    /\ \E now \in Times :
        /\ request_now' = [request_now EXCEPT ![r] = now]
        /\ expired' = [expired EXCEPT ![r] =
              RequestExpired(now, last_flush_timestamp, config.flush_period_secs)]
    /\ rpc' = [rpc EXCEPT ![r] = "handle"]
    /\ UNCHANGED <<sinkVars, metrics, last_flush_timestamp, writerVars, historyVars>>
    /\ UNCHANGED <<metrics_writer, metrics_readers, response>>

\* handle(req, namespace, &buckets, &quantiles, expired, &metrics)
Handle(r) ==
    /\ rpc[r] = "handle"
    /\ \E req \in Requests :
        response' = [response EXCEPT ![r] =
            handle(req, config.namespace, config.buckets, expired[r], metrics)]
    /\ rpc' = [rpc EXCEPT ![r] = "respond"]
    /\ UNCHANGED <<sinkVars, metrics, last_flush_timestamp, writerVars, historyVars>>
    /\ UNCHANGED <<lockVars, request_now, expired>>

\* The closure returns the response; both read guards are dropped.
Respond(r) ==
    /\ rpc[r] = "respond"
    /\ timestamp_readers' = timestamp_readers \ {r}
    /\ metrics_readers' = metrics_readers \ {r}
    /\ rpc' = [rpc EXCEPT ![r] = "idle"]
    /\ request_now' = [request_now EXCEPT ![r] = 0]
    /\ expired' = [expired EXCEPT ![r] = FALSE]
    /\ response' = [response EXCEPT ![r] = NoResponse]
    /\ UNCHANGED <<sinkVars, metrics, last_flush_timestamp, writerVars, historyVars>>
    /\ UNCHANGED metrics_writer

Next ==
    \/ StartServer
    \/ NextEvent
    \/ EndOfStream
    \/ LockMetrics
    \/ MergeAbsolute
    \/ TakeExisting
    \/ InsertNew
    \/ AdvanceTimestamp
    \/ ResetExisting
    \/ SkipReset
    \/ FoldAndInsert
    \/ Ack
    \/ UnlockMetrics
    \/ \E r \in Readers : ReadMetrics(r)
    \/ \E r \in Readers : ReadTimestamp(r)
    \/ \E r \in Readers : Handle(r)
    \/ \E r \in Readers : Respond(r)

\* One connection, a stream of StreamLen events.
Spec == Init /\ [][Next]_vars

\* NumReaders connections, a stream of ConcurrentStreamLen events.
SpecConcurrent == InitConcurrent /\ [][Next]_vars

\* The steps of run() other than taking the write lock of the registry.
WriterStep ==
    \/ StartServer
    \/ NextEvent
    \/ EndOfStream
    \/ MergeAbsolute
    \/ TakeExisting
    \/ InsertNew
    \/ AdvanceTimestamp
    \/ ResetExisting
    \/ SkipReset
    \/ FoldAndInsert
    \/ Ack
    \/ UnlockMetrics

\* The steps of a request once it holds the read guard of the registry.
RequestStep(r) == ReadTimestamp(r) \/ Handle(r) \/ Respond(r)

\* PrometheusSink::new at second 0 of the clock.
InitScheduled == InitConcurrent /\ last_flush_timestamp = 0

\* SpecConcurrent with its threads scheduled: run() and every request that
\* has begun keep taking steps, and the write lock of the registry goes to
\* run() if it is free again and again while run() waits for it. When a
\* request arrives is left open.
SpecScheduled ==
    /\ InitScheduled
    /\ [][Next]_vars
    /\ WF_vars(WriterStep)
    /\ SF_vars(LockMetrics)
    /\ \A r \in Readers : WF_vars(RequestStep(r))

\* ------------------------------------------------- the two expiry tests
\* Both tests of "the flush period is over", applied to the same instants.

\* Second counts of a clock that has not wrapped: the non-negative i64.
ExpiryTimes == 0 .. (TwoW \div 2 - 1)

InitExpiry ==
    /\ InitSink(0, {})
    /\ config.flush_period_secs = MIN_FLUSH_PERIOD_SECS
    /\ last_flush_timestamp = 0
    /\ call \in [fn : {"expired"}, now : ExpiryTimes, timestamp : ExpiryTimes,
                 flush_period_secs : MIN_FLUSH_PERIOD_SECS .. TwoW - 1,
                 done : {FALSE}, request : {FALSE}, merge : {FALSE}]

ApplyExpired ==
    /\ call.fn = "expired"
    /\ ~call.done
    /\ call' = [call EXCEPT
          !.done = TRUE,
          !.request = RequestExpired(call.now, call.timestamp, call.flush_period_secs),
          !.merge = MergeExpired(call.now, call.timestamp, call.flush_period_secs)]
    /\ UNCHANGED <<input, connections, config, server_shutdown_trigger, metrics,
                   last_flush_timestamp, acked, wpc, item, existing>>
    /\ UNCHANGED <<lockVars, readerVars, historyVars>>

NextExpiry == ApplyExpired

SpecExpiry == InitExpiry /\ [][NextExpiry]_vars

\* ------------------------------------------------- the rendering functions
\* handle, encode_metric_datum and the two tag encoders applied to inputs
\* drawn from bounded sets.

\* A registry handed to handle() holds at most MaxEntries entries.
MaxEntries == 3
\* A bucket list holds at most MaxBuckets bounds, each in 0..MaxBound, as do
\* the sample values; the list is not validated by build(), so any order.
MaxBuckets == 2
MaxBound == 2
\* A distribution holds at most MaxSamples samples of weight 1..MaxWeight.
MaxSamples == 2
MaxWeight == 2

SeqsUpTo(S, n) == UNION {[1 .. k -> S] : k \in 0 .. n}

\* Tag names in the order a BTreeMap iterates them: a, a1, code, le1.
TagNameSeq == << <<97>>, <<97, 49>>, CodeTag, <<108, 101, 49>> >>
TagValues == {<<120>>, Code200}

\* The BTreeMap holding the names of the mask, each with its value.
RECURSIVE PickTags(_, _, _)
PickTags(mask, val, i) ==
    IF i > Len(TagNameSeq) THEN <<>>
    ELSE (IF mask[i] THEN << <<TagNameSeq[i], val[i]>> >> ELSE <<>>)
         \o PickTags(mask, val, i + 1)

TagMaps ==
    { PickTags(mask, val, 1) :
        mask \in [1 .. Len(TagNameSeq) -> BOOLEAN],
        val \in [1 .. Len(TagNameSeq) -> TagValues] }

\* Option<BTreeMap<String, String>>: None, Some(empty), Some(map).
TagOptions == {NoTags} \cup {SomeTags(m) : m \in TagMaps}

QuantileTag == <<113, 117, 97, 110, 116, 105, 108, 101>>

\* The (tag, value) arguments encode_metric_datum passes to
\* encode_tags_with_extra, and none for encode_tags.
NoExtra == [some |-> FALSE, tag |-> <<>>, value |-> <<>>]
Extra(tag, value) == [some |-> TRUE, tag |-> tag, value |-> value]
ExtraOptions ==
    { NoExtra, Extra(LeTag, Digits(1)), Extra(LeTag, PlusInf),
      Extra(QuantileTag, <<48, 46, 53>>) }

BucketLists == SeqsUpTo(0 .. MaxBound, MaxBuckets)

\* The (value, sample rate) pairs of a distribution.
SampleLists == SeqsUpTo((0 .. MaxBound) \X (1 .. MaxWeight), MaxSamples)

Histogram(pairs) ==
    Distribution([i \in 1 .. Len(pairs) |-> pairs[i][1]],
                 [i \in 1 .. Len(pairs) |-> pairs[i][2]], "Histogram")

\* Entries of a registry handed to handle(): the kind is whatever the
\* Metric carries.
RenderEntries ==
    { Metric("hits", Tagged, "Absolute", Counter(1)),
      Metric("hits", NoTags, "Absolute", Counter(2)),
      Metric("users", NoTags, "Absolute", SetValue({"x"})),
      Metric("requests", NoTags, "Absolute", Histogram(<< <<1, 1>> >>)),
      Metric("temperature", NoTags, "Incremental", Gauge(1)),
      Metric("hits", SomeTags(<<>>), "Incremental", Counter(1)) }

\* IndexSet<MetricEntry>: no two entries are equal.
Registries ==
    { s \in SeqsUpTo(RenderEntries, MaxEntries) :
        \A i, j \in 1 .. Len(s) : i # j => ~SameEntry(s[i], s[j]) }

HandleCalls ==
    [fn : {"handle"}, req : Requests, namespace : {None, Some("vector")},
     buckets : {<<0, 2>>}, expired : BOOLEAN, set : Registries,
     done : {FALSE}, response : {NoResponse}]

TagsCalls ==
    [fn : {"encode_tags"}, tags : TagOptions, extra : ExtraOptions,
     done : {FALSE}, result : {<<>>}]

DatumCalls ==
    [fn : {"encode_metric_datum"}, namespace : {None}, buckets : BucketLists,
     expired : {FALSE},
     metric : {Metric("requests", Tagged, "Absolute", Histogram(p)) :
                  p \in SampleLists},
     done : {FALSE}, frame : {<<>>}]
    \cup
    [fn : {"encode_metric_datum"}, namespace : {None}, buckets : {<<>>},
     expired : BOOLEAN,
     metric : {Metric("hits", t, "Absolute", Counter(1)) : t \in TagOptions}
              \cup {Metric("users", t, "Absolute", SetValue({"x"})) :
                       t \in {NoTags, SomeTags(<<>>), Tagged}},
     done : {FALSE}, frame : {<<>>}]

InitRender ==
    /\ InitSink(0, {})
    /\ config.flush_period_secs = MIN_FLUSH_PERIOD_SECS
    /\ last_flush_timestamp = 0
    /\ call \in HandleCalls \cup TagsCalls \cup DatumCalls

ApplyHandle ==
    /\ call.fn = "handle"
    /\ ~call.done
    /\ call' = [call EXCEPT
          !.done = TRUE,
          !.response = handle(call.req, call.namespace, call.buckets,
                              call.expired, call.set)]
    /\ UNCHANGED <<input, connections, config, server_shutdown_trigger, metrics,
                   last_flush_timestamp, acked, wpc, item, existing>>
    /\ UNCHANGED <<lockVars, readerVars, historyVars>>

ApplyEncodeTags ==
    /\ call.fn = "encode_tags"
    /\ ~call.done
    /\ call' = [call EXCEPT
          !.done = TRUE,
          !.result = IF call.extra.some
                     THEN encode_tags_with_extra(call.tags, call.extra.tag,
                                                 call.extra.value)
                     ELSE encode_tags(call.tags)]
    /\ UNCHANGED <<input, connections, config, server_shutdown_trigger, metrics,
                   last_flush_timestamp, acked, wpc, item, existing>>
    /\ UNCHANGED <<lockVars, readerVars, historyVars>>

ApplyEncodeMetricDatum ==
    /\ call.fn = "encode_metric_datum"
    /\ ~call.done
    /\ call' = [call EXCEPT
          !.done = TRUE,
          !.frame = encode_metric_datum(call.namespace, call.buckets,
                                        call.expired, call.metric)]
    /\ UNCHANGED <<input, connections, config, server_shutdown_trigger, metrics,
                   last_flush_timestamp, acked, wpc, item, existing>>
    /\ UNCHANGED <<lockVars, readerVars, historyVars>>

NextRender ==
    \/ ApplyHandle
    \/ ApplyEncodeTags
    \/ ApplyEncodeMetricDatum

SpecRender == InitRender /\ [][NextRender]_vars

\* ------------------------------------------------------------------ claims

\* The data lines of a response body.
DataLines(body) == SelectSeq(body, LAMBDA l : l.line = "DATA")

\* The frames of the entries i.. of metrics, one after the other.
RECURSIVE FramesFrom(_, _)
FramesFrom(flag, i) ==
    IF i > Len(metrics) THEN <<>>
    ELSE encode_metric_datum(config.namespace, config.buckets, flag, metrics[i])
         \o FramesFrom(flag, i + 1)

\* The request of r has rendered the registry and still holds its guards.
Rendered(r) == rpc[r] = "respond" /\ response[r].status = 200

\* The merge of the current item is applied and not yet acknowledged.
Merged == wpc = "ack"

\* The position of the current item's identity before the merge.
Was == IndexOf(before, to_absolute(item))

\* C1: after an Absolute update for an identity is merged, the entry of that
\* identity is exactly the update (nothing of an earlier value survives), and
\* a render shows, entry by entry, the encoding of the stored values.
C1_AbsoluteReplaces ==
    /\ (Merged /\ item.kind = "Absolute") =>
          /\ IndexOf(metrics, item) # 0
          /\ metrics[IndexOf(metrics, item)] = item
    /\ \A r \in Readers :
          Rendered(r) => DataLines(response[r].body) = FramesFrom(expired[r], 1)

\* An Absolute update has replaced an entry that held another value.
C1_Witness ==
    /\ Merged /\ item.kind = "Absolute"
    /\ Was # 0
    /\ before[Was].value # item.value
    /\ metrics[Was].value = item.value

IsScalar(m) == m.value.type \in {"Counter", "Gauge"}

\* C2: a counter or gauge entry holds, and a render shows, the last Absolute
\* value of its identity plus the sum of the Incremental values merged since
\* (the sum of all Incremental values when there was no Absolute one).
C2_IncrementalSum ==
    /\ wpc \in {"unlock", "next", "lock", "done"} =>
          \A i \in 1 .. Len(metrics) :
              IsScalar(metrics[i]) =>
                  metrics[i].value.value = expected[IdOf(metrics[i])]
    /\ \A r \in Readers :
          Rendered(r) =>
              \A i \in 1 .. Len(metrics) :
                  IsScalar(metrics[i]) =>
                      \E k \in 1 .. Len(response[r].body) :
                          response[r].body[k] =
                              DataLine(encode_namespace(config.namespace, metrics[i].name),
                                       encode_tags(metrics[i].tags),
                                       expected[IdOf(metrics[i])])

\* An Incremental counter update has been folded into an entry that already
\* held the sum of earlier updates.
C2_Witness ==
    /\ wpc = "unlock" /\ item.kind = "Incremental" /\ IsScalar(item)
    /\ Was # 0
    /\ before[Was].value.value > MaxDelta
    /\ expected[IdOf(item)] = before[Was].value.value + item.value.value

\* C3: a render shows, for every Set entry, 0 when expired and otherwise the
\* number of distinct members observed for that identity since the global
\* reset timestamp last advanced.
C3_SetCountSinceReset ==
    \A r \in Readers :
        Rendered(r) =>
            \A i \in 1 .. Len(metrics) :
                is_set(metrics[i].value) =>
                    \E k \in 1 .. Len(response[r].body) :
                        response[r].body[k] =
                            DataLine(encode_namespace(config.namespace, metrics[i].name),
                                     encode_tags(metrics[i].tags),
                                     IF expired[r] THEN 0
                                     ELSE Cardinality(observed[IdOf(metrics[i])]))

\* C4: the registry never holds two entries of one identity.
C4_OneEntryPerIdentity ==
    \A i, j \in 1 .. Len(metrics) :
        i # j => ~SameEntry(metrics[i], metrics[j])

\* A request renders a registry of several entries, one of them merged into
\* more than once.
C4_Witness ==
    /\ \E r \in Readers : Rendered(r)
    /\ Len(metrics) >= 2
    /\ \E i \in 1 .. Len(metrics) :
          metrics[i].value.type = "Counter" /\ metrics[i].value.value > MaxDelta

\* C5 as claimed: an Incremental update of a present identity leaves its entry
\* last and the other entries in their former relative order.
C5_RelativeOrderKept ==
    (Merged /\ item.kind = "Incremental" /\ Was # 0) =>
        /\ SameEntry(metrics[Len(metrics)], item)
        /\ SelectSeq(metrics, LAMBDA x : ~SameEntry(x, item))
             = SelectSeq(before, LAMBDA x : ~SameEntry(x, item))

\* C5 amended: an Incremental update of a present identity leaves its entry
\* last; the entry that was last before takes the place the merged entry
\* had, and every other entry keeps its position.
C5_LastFillsTheHole ==
    (Merged /\ item.kind = "Incremental" /\ Was # 0) =>
        LET n == Len(before)
        IN  /\ Len(metrics) = n
            /\ SameEntry(metrics[n], item)
            /\ Was < n => metrics[Was] = before[n]
            /\ \A j \in 1 .. n - 1 : j # Was => metrics[j] = before[j]

\* An Incremental update of the first of three entries has been merged.
C5_Witness ==
    /\ Merged /\ item.kind = "Incremental"
    /\ Len(before) >= 3 /\ Was = 1
    /\ metrics[1] = before[Len(before)]

\* C6: an Absolute update of a present identity replaces the value where the
\* entry is and moves no entry; an update of either kind to an absent
\* identity appends the new entry and moves no entry.
C6_AbsoluteInPlace ==
    Merged =>
        /\ (item.kind = "Absolute" /\ Was # 0) =>
              /\ Len(metrics) = Len(before)
              /\ metrics[Was] = item
              /\ \A j \in 1 .. Len(before) : j # Was => metrics[j] = before[j]
        /\ Was = 0 => metrics = Append(before, to_absolute(item))

\* An Absolute update of the first of several entries has been merged, and
\* so has an update of an absent identity.
C6_Witness ==
    /\ Merged /\ item.kind = "Absolute"
    /\ Len(before) >= 2 /\ Was = 1
    /\ before[1].value # item.value

\* C10 as claimed: the global reset timestamp changes only when an Incremental
\* Set update is merged into a present identity with
\* now - timestamp > flush_period; every other step leaves it unchanged.
C10_TimestampOnlyWhenExpired ==
    [][last_flush_timestamp' # last_flush_timestamp =>
          /\ wpc = "taken"
          /\ item.kind = "Incremental" /\ is_set(item.value)
          /\ existing # NoItem
          /\ last_flush_timestamp' - last_flush_timestamp
                > config.flush_period_secs]_vars

\* The steps of run() between taking and dropping the write guard.
InMerge == wpc \in {"match", "taken", "reset", "fold", "ack", "unlock"}

\* The request of r holds the read guard of the registry.
Holding(r) == rpc[r] \in {"timestamp", "handle", "respond"}

\* C7: while a request holds its guards the ingest loop is outside a merge
\* (no entry is out of the set, no Set is cleared and not yet folded, the
\* timestamp is not advanced ahead of the reset), and neither the registry
\* nor the timestamp changes until the request has dropped them.
C7_RequestsSeeWholeMerges ==
    /\ [](\A r \in Readers : Holding(r) => ~InMerge /\ ~metrics_writer)
    /\ [][(\E r \in Readers : Holding(r)) =>
            UNCHANGED <<metrics, last_flush_timestamp>>]_vars

\* Two requests hold their guards, one of them rendered, while the ingest
\* loop has an update to merge.
C7_Witness ==
    /\ rpc[1] = "respond" /\ response[1].status = 200
    /\ rpc[2] = "handle"
    /\ wpc = "lock"
    /\ Len(metrics) >= 1

\* C8 as claimed: no merge is delayed because requests are being rendered:
\* whenever the ingest loop is about to take the write lock, no request that
\* is rendering holds a guard the merge needs.
C8_NeverWaitsForRequests ==
    wpc = "lock" =>
        \A r \in Readers : rpc[r] = "handle" => r \notin metrics_readers

\* C8 amended: each request holds the read guard of the registry from before
\* it computes `expired` until its response is built, rendering included; the
\* ingest loop can take the write lock exactly when no request holds that
\* guard, and once it has it no request holds a guard of the registry or of
\* the timestamp, so no later step of the merge waits.
C8_WaitsOnlyForReadGuards ==
    /\ \A r \in Readers : Holding(r) <=> r \in metrics_readers
    /\ \A r \in Readers : rpc[r] \in {"handle", "respond"} <=> r \in timestamp_readers
    /\ wpc = "lock" => (ENABLED LockMetrics <=> metrics_readers = {})
    /\ InMerge => metrics_readers = {} /\ timestamp_readers = {}

\* The ingest loop has an update to merge while a request is rendering.
C8_Witness ==
    /\ wpc = "lock"
    /\ \E r \in Readers : rpc[r] = "handle" /\ r \in metrics_readers
    /\ ~ENABLED LockMetrics

\* C9: the expired flag of a request is true exactly when
\* now - global_reset_timestamp > flush_period (false at equality, false when
\* now is before the timestamp), and agrees with the test of the merge path.
C9_ExpiredIffPeriodOver ==
    (call.fn = "expired" /\ call.done) =>
        /\ call.request = (call.now - call.timestamp > call.flush_period_secs)
        /\ call.request = call.merge

\* The events run() has pulled from the input stream.
Consumed == StreamLen - input

\* The registry holds the current item as its merge leaves it.
Applied ==
    /\ IndexOf(metrics, item) # 0
    /\ LET entry == metrics[IndexOf(metrics, item)]
       IN  IF item.kind = "Absolute" THEN entry = item
           ELSE IF Was = 0 THEN entry = to_absolute(item)
           ELSE entry \in {add(before[Was], item), add(reset(before[Was]), item)}

\* C11: every update is acknowledged exactly once, by acker.ack(1), after the
\* update is applied to the registry and before the next one is pulled: at
\* every step the acknowledged count is the number of updates whose merge is
\* complete, and each acknowledged update is reflected in the registry.
C11_AckedOncePerUpdate ==
    /\ [](/\ wpc \in {"start", "next", "done", "unlock"} => acked = Consumed
          /\ wpc \in {"lock", "match", "taken", "reset", "fold", "ack"} =>
                acked = Consumed - 1
          /\ wpc = "unlock" => Applied)
    /\ [][acked' # acked => (acked' = acked + 1 /\ wpc = "ack" /\ Applied)]_vars
    /\ [][input' # input => acked = Consumed]_vars

\* The last update of the stream, an Incremental one folded into a present
\* entry, has just been acknowledged.
C11_Witness ==
    /\ wpc = "unlock" /\ acked = StreamLen /\ input = 0
    /\ item.kind = "Incremental" /\ Was # 0
    /\ metrics[Len(metrics)] = add(before[Was], item)

\* A call of fn has returned.
Returned(fn) == call.fn = fn /\ call.done

\* C12: the response of handle is status 200 with the rendered text and
\* Content-Type text/plain; version=0.0.4 exactly when the request is
\* GET /metrics (the body empty when the registry is empty); every other
\* method or path gives status 404, an empty body and no such header.
C12_OnlyGetMetricsIsServed ==
    Returned("handle") =>
        IF call.req.method = "GET" /\ call.req.path = "/metrics"
        THEN /\ call.response.status = 200
             /\ call.response.content_type = "text/plain; version=0.0.4"
             /\ call.response.body =
                   RenderFrom(call.namespace, call.buckets, call.expired,
                              call.set, 1, {})
             /\ call.set = <<>> => call.response.body = <<>>
        ELSE /\ call.response.status = 404
             /\ call.response.content_type = ""
             /\ call.response.body = <<>>

\* A POST to /metrics of a registry that holds entries has been answered.
C12_Witness ==
    /\ Returned("handle")
    /\ call.req.method = "POST" /\ call.req.path = "/metrics"
    /\ Len(call.set) >= 2
    /\ call.response.status = 404 /\ call.response.body = <<>>

\* The frame of entry i of the registry handed to handle.
CallFrame(i) ==
    encode_metric_datum(call.namespace, call.buckets, call.expired, call.set[i])

\* The lines of the frames of the entries 1..i.
RECURSIVE FrameLines(_)
FrameLines(i) == IF i = 0 THEN 0 ELSE FrameLines(i - 1) + Len(CallFrame(i))

\* Entry i is the first of the registry with its name.
FirstWithName(i) == \A j \in 1 .. i - 1 : call.set[j].name # call.set[i].name

\* The positions of the lines of one kind that carry a name.
LinesOf(body, kind, fullname) ==
    {k \in 1 .. Len(body) : body[k].line = kind /\ body[k].name = fullname}

\* C13: in one render pass every distinct metric name gets exactly one
\* HELP/TYPE block, HELP then TYPE, put immediately before the data lines of
\* the first entry with that name; the data lines of every entry with that
\* name come after that block, and the body holds nothing but these blocks
\* and the entries' data lines. Each call starts with no header emitted.
C13_OneHeaderPerName ==
    (Returned("handle") /\ call.response.status = 200) =>
        LET body == call.response.body
            set == call.set
        IN  /\ \A i \in 1 .. Len(set) :
                  LET fullname == encode_namespace(call.namespace, set[i].name)
                      helps == LinesOf(body, "HELP", fullname)
                  IN  /\ Cardinality(helps) = 1
                      /\ Cardinality(LinesOf(body, "TYPE", fullname)) = 1
                      /\ \A k \in helps :
                            /\ k + 1 \in LinesOf(body, "TYPE", fullname)
                            /\ body[k].text = set[i].name
                            /\ FirstWithName(i) =>
                                  SubSeq(body, k + 2, k + 1 + Len(CallFrame(i)))
                                     = CallFrame(i)
                            /\ \E p \in k + 2 .. Len(body) + 1 :
                                  SubSeq(body, p, p + Len(CallFrame(i)) - 1)
                                     = CallFrame(i)
            /\ Len(body) =
                  2 * Cardinality({set[i].name : i \in 1 .. Len(set)})
                  + FrameLines(Len(set))

\* Two entries named hits with another name between them have been
\* rendered: one header of hits, before the first entry's data line, and the
\* second entry's data line last.
C13_Witness ==
    /\ Returned("handle") /\ call.response.status = 200
    /\ Len(call.set) = 3
    /\ \A i \in 1 .. 3 : is_absolute(call.set[i].kind)
    /\ call.set[1].name = "hits" /\ call.set[2].name = "users"
    /\ call.set[3].name = "hits"
    /\ LET body == call.response.body
       IN  /\ Len(body) = 7
           /\ <<body[1].line, body[2].line, body[3].line>> = <<"HELP", "TYPE", "DATA">>
           /\ <<body[4].line, body[5].line, body[6].line>> = <<"HELP", "TYPE", "DATA">>
           /\ body[7] = CallFrame(3)[1]

RECURSIVE SeqSum(_)
SeqSum(s) == IF s = <<>> THEN 0 ELSE Head(s) + SeqSum(Tail(s))

\* encode_metric_datum has returned the frame of a raw Distribution in
\* Histogram mode.
HistogramReturned ==
    /\ Returned("encode_metric_datum")
    /\ call.metric.value.type = "Distribution"
    /\ call.metric.value.statistic = "Histogram"

\* C14: for a raw Distribution in Histogram mode and any bucket list, the
\* frame is one _bucket line per configured bound, the le="+Inf" bucket, _sum
\* and _count; the bucket values never decrease from one bucket line to the
\* next, and the +Inf bucket and _count are both the sum of the sample
\* weights.
C14_BucketsCumulative ==
    HistogramReturned =>
        LET frame == call.frame
            n == Len(call.buckets)
            fullname == encode_namespace(call.namespace, call.metric.name)
            total == SeqSum(call.metric.value.sample_rates)
        IN  /\ Len(frame) = n + 3
            /\ \A i \in 1 .. n + 1 : frame[i].name = fullname \o "_bucket"
            /\ \A i \in 1 .. n : frame[i].value <= frame[i + 1].value
            /\ frame[n + 1].tags =
                  encode_tags_with_extra(call.metric.tags, LeTag, PlusInf)
            /\ frame[n + 1].value = total
            /\ frame[n + 3].name = fullname \o "_count"
            /\ frame[n + 3].value = total

\* A histogram over the unsorted bucket list 1, 0 has been rendered with one
\* sample inside the first bound and one above both.
C14_Witness ==
    /\ HistogramReturned
    /\ call.buckets = <<1, 0>>
    /\ Len(call.metric.value.samples) = 2
    /\ 0 < call.frame[1].value
    /\ call.frame[2].value < call.frame[3].value
    /\ call.frame[3].value = call.frame[5].value

\* The pairs of a tag map with one more pair put at its place in the order
\* of the tag names.
RECURSIVE InsertByName(_, _)
InsertByName(map, pair) ==
    IF map = <<>> THEN <<pair>>
    ELSE IF StrLess(pair[1], Head(map)[1]) THEN <<pair>> \o map
    ELSE <<Head(map)>> \o InsertByName(Tail(map), pair)

\* C15: the tag block lists the name="value" pairs in the lexicographic
\* order of the tag names, also when one name is a prefix of another (a
\* before a1), the synthetic le or quantile tag at its place in that order.
C15_TagsSortedByName ==
    (Returned("encode_tags") /\ (call.tags.some \/ call.extra.some)) =>
        LET own == IF call.tags.some THEN call.tags.map ELSE <<>>
            pairs == IF call.extra.some
                     THEN InsertByName(own, <<call.extra.tag, call.extra.value>>)
                     ELSE own
        IN  call.result =
                <<123>>
                \o Join([i \in 1 .. Len(pairs) |->
                            FormatPart(pairs[i][1], pairs[i][2])])
                \o <<125>>

\* C16: an entry with an empty tag set, absent or present and empty, has a
\* data line without braces.
C16_EmptyTagsNoBraces ==
    (/\ Returned("encode_metric_datum")
     /\ call.metric.value.type \in {"Counter", "Gauge", "Set"}
     /\ (~call.metric.tags.some \/ call.metric.tags.map = <<>>)) =>
        /\ Len(call.frame) = 1
        /\ call.frame[1].tags = <<>>

\* The weight of the samples whose value is not above the bound.
RECURSIVE WeightUpTo(_, _, _)
WeightUpTo(samples, sample_rates, bound) ==
    IF samples = <<>> \/ sample_rates = <<>> THEN 0
    ELSE (IF bound >= Head(samples) THEN Head(sample_rates) ELSE 0)
         + WeightUpTo(Tail(samples), Tail(sample_rates), bound)

\* C18: for a raw Distribution in Histogram mode and any bucket list, sorted
\* or not, the value of each bucket line is the weight of exactly the samples
\* whose value is not above the bucket's bound.
C18_BucketHoldsSamplesUpToBound ==
    HistogramReturned =>
        \A i \in 1 .. Len(call.buckets) :
            call.frame[i].value =
                WeightUpTo(call.metric.value.samples,
                           call.metric.value.sample_rates, call.buckets[i])

\* The entries of a registry whose kind is Absolute.
AbsoluteOnly(set) == SelectSeq(set, LAMBDA m : is_absolute(m.kind))

C17_SetResetIffPeriodOver ==
    /\ [][(wpc = "taken" /\ is_set(item.value)) =>
            /\ wpc' = "reset" =>
                  last_flush_timestamp' - last_flush_timestamp
                      > config.flush_period_secs
            /\ wpc' = "fold" =>
                  /\ last_flush_timestamp' = last_flush_timestamp
                  /\ \E now \in Times :
                        ~(now - last_flush_timestamp > config.flush_period_secs)]_vars
    /\ [][(wpc = "reset" /\ wpc' = "fold") => existing'.value.values = {}]_vars
    /\ [][(wpc = "fold" /\ wpc' = "ack" /\ is_set(item.value)) =>
            metrics'[Len(metrics')].value.values
                = existing.value.values \cup item.value.values]_vars

\* C20: every entry the registry holds, and the entry run() has taken out of
\* it, is of kind Absolute, so a render puts out a frame for every entry.
C20_StoredEntriesAbsolute ==
    /\ \A i \in 1 .. Len(metrics) : is_absolute(metrics[i].kind)
    /\ is_absolute(existing.kind)
    /\ \A r \in Readers :
          Rendered(r) =>
              \A i \in 1 .. Len(metrics) :
                  encode_metric_datum(config.namespace, config.buckets,
                                      expired[r], metrics[i]) # <<>>

\* An Incremental update of an absent identity has been inserted behind
\* two other entries, in its absolute form.
C20_Witness ==
    /\ Merged /\ item.kind = "Incremental" /\ Was = 0
    /\ Len(metrics) >= 3
    /\ metrics[Len(metrics)] = to_absolute(item)
    /\ metrics[Len(metrics)] # item

\* C21: the locking cannot deadlock. Whoever waits for a lock of the
\* registry can take it as soon as its holders are gone, every merge that
\* has the write lock runs to its end without waiting (for the timestamp
\* locks included), every request that has the read guard runs to its
\* response, and run() waiting for the write lock gets it unless requests
\* hold read guards for ever.
C21_NoDeadlock ==
    /\ [](wpc = "lock" /\ metrics_readers = {} => ENABLED LockMetrics)
    /\ [](\A r \in Readers :
            (server_shutdown_trigger /\ rpc[r] = "idle" /\ ~metrics_writer)
                => ENABLED ReadMetrics(r))
    /\ [](wpc \in {"match", "taken", "reset", "fold", "ack", "unlock"}
            => ENABLED WriterStep)
    /\ [](\A r \in Readers : Holding(r) => ENABLED RequestStep(r))
    /\ (metrics_writer ~> ~metrics_writer)
    /\ \A r \in Readers : Holding(r) ~> (rpc[r] = "idle")
    /\ ([]<>(metrics_readers = {})) => (wpc = "lock" ~> wpc = "match")

\* run() waits for the write lock with an Incremental Set update of a present
\* identity, whose merge tests the timestamp, behind two requests of which
\* one holds the read guard of the timestamp.
C21_Witness ==
    /\ wpc = "lock"
    /\ item.kind = "Incremental" /\ is_set(item.value)
    /\ IndexOf(metrics, to_absolute(item)) # 0
    /\ rpc[1] = "timestamp" /\ rpc[2] = "respond"
    /\ metrics_readers = {1, 2} /\ timestamp_readers = {2}

\* C22: the global reset timestamp never decreases: every write of it by
\* run() stores a value greater than the one before by more than the flush
\* period, also when the wall clock was set back between merges.
C22_TimestampNeverDecreases ==
    /\ [][last_flush_timestamp' >= last_flush_timestamp]_vars
    /\ [][(wpc = "taken" /\ wpc' = "reset") =>
            last_flush_timestamp'
                > last_flush_timestamp + config.flush_period_secs]_vars

\* More than the flush period lies between the timestamp and the instant
\* the request of r read the clock.
PeriodOver(r) ==
    request_now[r] - last_flush_timestamp > config.flush_period_secs

\* C23: a request that reads the clock more than the flush period after the
\* global reset timestamp is expired, and its render shows 0 for every Set
\* entry, whatever members the entry holds (those of an Absolute update or of
\* a first insertion included); this lasts as long as the timestamp keeps its
\* value, and the timestamp changes only while an Incremental Set update is
\* merged into an identity already present: Absolute updates, insertions of
\* new identities and updates of other metrics leave it as it is.
C23_ExpiredUntilSetMerge ==
    /\ [](\A r \in Readers :
            (rpc[r] \in {"handle", "respond"} /\ PeriodOver(r)) =>
                /\ expired[r]
                /\ Rendered(r) =>
                      \A i \in 1 .. Len(metrics) :
                          is_set(metrics[i].value) =>
                              \E k \in 1 .. Len(response[r].body) :
                                  response[r].body[k] =
                                      DataLine(encode_namespace(config.namespace,
                                                                metrics[i].name),
                                               encode_tags(metrics[i].tags), 0))
    /\ [][last_flush_timestamp' # last_flush_timestamp =>
            /\ wpc = "taken"
            /\ item.kind = "Incremental" /\ is_set(item.value)
            /\ existing # NoItem /\ SameEntry(existing, item)]_vars

\* A request that read the clock more than the flush period after the
\* timestamp has rendered a registry holding two Set entries with members
\* observed since the timestamp last advanced.
C23_Witness ==
    /\ Rendered(1) /\ PeriodOver(1)
    /\ Cardinality({i \in 1 .. Len(metrics) :
                       /\ is_set(metrics[i].value)
                       /\ metrics[i].value.values # {}
                       /\ observed[IdOf(metrics[i])] # {}}) = 2

====
